---- MODULE Spec2Model ----
(***************************************************************************)
(* Checkpoint transfer functions of training/hf_utils.py and               *)
(* training/gcp_utils.py:                                                  *)
(*   fetch_checkpoint_from_huggingface, fetch_checkpoint_from_gcs,         *)
(*   upload_checkpoint_to_gcs.                                             *)
(*                                                                         *)
(* A Python str is a sequence of one-character strings; "/" is os.sep.     *)
(* The string functions the code calls (str.startswith, str.endswith,      *)
(* str.strip, str.split, os.path.join/dirname/basename/normpath/abspath/   *)
(* relpath, os.makedirs, os.walk) are operators that compute what the      *)
(* posixpath implementation computes.                                      *)
(***************************************************************************)
EXTENDS Naturals, Sequences, FiniteSets

Sep == "/"
Dot == "."
ParDir == <<Dot, Dot>>
CurDir == <<Dot>>

\* Working directory of the process, against which relative paths resolve.
Cwd == <<Sep, "w">>

----------------------------------------------------------------------------
(* str methods *)

\* s.startswith(p)
StartsWith(s, p) == Len(p) <= Len(s) /\ SubSeq(s, 1, Len(p)) = p

\* s.endswith('/')
EndsWithSep(s) == Len(s) > 0 /\ s[Len(s)] = Sep

\* index of the last '/' in s, 0 when there is none (s.rfind('/') + 1)
RECURSIVE RFindSep(_, _)
RFindSep(s, n) ==
    IF n = 0 THEN 0
    ELSE IF s[n] = Sep THEN n
    ELSE RFindSep(s, n - 1)

RECURSIVE LStripSep(_)
LStripSep(s) ==
    IF Len(s) > 0 /\ s[1] = Sep THEN LStripSep(Tail(s)) ELSE s

RECURSIVE RStripSep(_)
RStripSep(s) ==
    IF Len(s) > 0 /\ s[Len(s)] = Sep THEN RStripSep(SubSeq(s, 1, Len(s) - 1)) ELSE s

\* the prefix taken as given, separators at its ends left in place
StripNothing(s) == s

\* s.strip('/')
Strip(s) == RStripSep(LStripSep(s))

\* s.split('/'): the pieces between separators, empty pieces included
RECURSIVE SplitFrom(_, _, _)
SplitFrom(s, n, cur) ==
    IF n > Len(s) THEN <<cur>>
    ELSE IF s[n] = Sep THEN <<cur>> \o SplitFrom(s, n + 1, <<>>)
    ELSE SplitFrom(s, n + 1, Append(cur, s[n]))

Split(s) == SplitFrom(s, 1, <<>>)

Last(q) == q[Len(q)]

----------------------------------------------------------------------------
(* posixpath *)

\* os.path.join(a, b)
Join(a, b) ==
    IF Len(b) > 0 /\ b[1] = Sep THEN b
    ELSE IF Len(a) = 0 \/ a[Len(a)] = Sep THEN a \o b
    ELSE a \o <<Sep>> \o b

\* os.path.basename(p)
Basename(p) == SubSeq(p, RFindSep(p, Len(p)) + 1, Len(p))

AllSep(s) == \A n \in 1..Len(s) : s[n] = Sep

\* os.path.dirname(p)
Dirname(p) ==
    LET head == SubSeq(p, 1, RFindSep(p, Len(p)))
    IN  IF Len(head) > 0 /\ ~AllSep(head) THEN RStripSep(head) ELSE head

\* The component walk of normpath and of the kernel's path resolution: empty
\* and "." components vanish, ".." pops (and stays at the root).  No symlinks.
RECURSIVE Normalize(_, _)
Normalize(comps, acc) ==
    IF comps = <<>> THEN acc
    ELSE LET c == Head(comps)
         IN  IF c = <<>> \/ c = CurDir THEN Normalize(Tail(comps), acc)
             ELSE IF c = ParDir
                  THEN Normalize(Tail(comps),
                                 IF acc = <<>> THEN acc
                                 ELSE SubSeq(acc, 1, Len(acc) - 1))
             ELSE Normalize(Tail(comps), Append(acc, c))

\* os.path.abspath(p) as the list of its components below the root:
\* normpath(join(os.getcwd(), p)).
AbsPath(p) == Normalize(Split(Join(Cwd, p)), <<>>)

IsPrefix(a, b) == Len(a) <= Len(b) /\ SubSeq(b, 1, Len(a)) = a

RECURSIVE CommonLen(_, _)
CommonLen(a, b) ==
    IF a = <<>> \/ b = <<>> \/ Head(a) # Head(b) THEN 0
    ELSE 1 + CommonLen(Tail(a), Tail(b))

\* os.path.join(acc, *comps)
RECURSIVE JoinAll(_, _)
JoinAll(acc, comps) ==
    IF comps = <<>> THEN acc
    ELSE JoinAll(Join(acc, Head(comps)), Tail(comps))

\* the mapping that keeps only the file name, dropping the sub-directories
RelPathFlat(path, start) == Basename(path)

\* os.path.relpath(path, start)
RelPath(path, start) ==
    LET sl  == AbsPath(start)
        pl  == AbsPath(path)
        n   == CommonLen(sl, pl)
        rel == [k \in 1..(Len(sl) - n) |-> ParDir] \o SubSeq(pl, n + 1, Len(pl))
    IN  IF rel = <<>> THEN CurDir ELSE JoinAll(Head(rel), Tail(rel))

----------------------------------------------------------------------------
(* Local filesystem: the set of existing directories and the files written, *)
(* both by absolute component list.                                         *)

\* every directory on the way from the root to the absolute path comps
Ancestors(comps) == {SubSeq(comps, 1, n) : n \in 0..Len(comps)}

\* the directories that the leading parts of comps, from the n-th on, name and
\* that are neither in ds nor in acc, shallowest first
RECURSIVE PlanFrom(_, _, _, _)
PlanFrom(ds, comps, n, acc) ==
    IF n > Len(comps) THEN acc
    ELSE LET d == Normalize(SubSeq(comps, 1, n), <<>>)
         IN  PlanFrom(ds, comps, n + 1,
                      IF d \in ds \/ d \in {acc[k] : k \in 1..Len(acc)} THEN acc
                      ELSE Append(acc, d))

\* a makedirs that creates nothing
MkdirPlanNone(ds, p) == <<>>

\* os.makedirs(p, exist_ok=True): the mkdir calls it makes, in order, one for
\* every missing directory leading to p and one for p (the leading parts are
\* created before a ".." in p is walked through).
MkdirPlan(ds, p) == PlanFrom(ds, Split(Join(Cwd, p)), 1, <<>>)

ParentOf(comps) == SubSeq(comps, 1, Len(comps) - 1)

\* open(path, "wb") and the write of the payload: replaces what is at path
WriteFile(fs, path, key) ==
    {f \in fs : f.path # AbsPath(path)} \cup {[path |-> AbsPath(path), key |-> key]}

----------------------------------------------------------------------------
(* Inputs *)

MaxListing == 3
MaxFiles == 3
MaxAttempts == 2

KModel    == <<"r", Sep, "c", Sep, "m">>
KOther    == <<"r", Sep, "c", Sep, "n">>
KNested   == <<"r", Sep, "c", Sep, "s", Sep, "m">>
KSibling  == <<"r", Sep, "c", "0", Sep, "m">>
KOutside  == <<"r", Sep, "x">>
KMarker   == <<"r", Sep, "c", Sep>>
KDotDot   == <<"r", Sep, "c", Sep, Dot, Dot, Sep, "m">>
KRooted   == <<Sep, "r", Sep, "c", Sep, "m">>

\* Paths a hub repository can list: files of a git tree (no directory entries,
\* no leading separator, no ".." component).
RepoFiles == {KModel, KOther, KNested, KSibling, KOutside}

\* Object names a bucket can hold: any of the above, zero-byte "directory"
\* objects, names with ".." components, names with a leading separator.
BucketNames == RepoFiles \cup {KMarker, KDotDot, KRooted}

CheckpointPaths == {<<"r", Sep, "c">>, <<"r", Sep, "c", Sep>>, <<Sep, "r", Sep, "c">>}

OutputDirs == {<<"o">>, <<Sep, "o", Sep>>}

LocalDirs == {<<"l">>, <<Sep, "l", Sep>>}

\* Files below local_dir, each by the names leading to it.
TreeFiles == {<<"m">>, <<"n">>, <<"s", "m">>, <<"s", "t", "m">>}

\* sequences without repetition, of at most max elements of U
Listings(U, max) ==
    UNION {{q \in [1..n -> U] : \A a, b \in 1..n : a # b => q[a] # q[b]} : n \in 0..max}

Range(q) == {q[n] : n \in 1..Len(q)}

----------------------------------------------------------------------------
(* State *)

VARIABLES
    op,               \* the function called: "hf", "gcs", "upload" or "convert"
    checkpoint_path,  \* argument checkpoint_path
    output_dir,       \* argument output_dir (fetch) or local_dir (upload)
    remote,           \* fetch: names held by the repository / bucket, in listing order
    tree,             \* upload: files below local_dir
    faulty,           \* names (fetch) or files (upload) whose transfer raises
    blobs,            \* the sequence the loop iterates: checkpoint_files, blobs, os.walk
    i,                \* position of the loop in blobs
    log,              \* transfers attempted, in order
    outcome,          \* per position of blobs: what the run did with it
    dirs,             \* local directories that exist
    files,            \* local files written by the run
    uploaded,         \* upload: blobs put in the bucket, in order
    saved,            \* convert: what was saved to output_path, in order
    pushed,           \* convert: what upload_folder sent to the hub repository
    todo,             \* directories the running os.makedirs has still to make
    ret,              \* where the call goes on when that os.makedirs returns
    pc                \* in the call: "start", "mkdir", "list", "loop", "transfer",
                      \* "handler", "save", "report"; out of it: "done",
                      \* "caught", "raised", "interrupted"

vars == <<op, checkpoint_path, output_dir, remote, tree, faulty, blobs, i, log,
          outcome, dirs, files, uploaded, saved, pushed, todo, ret, pc>>

args == <<op, checkpoint_path, output_dir, remote, tree, faulty>>

\* no file of the tree is a directory of another
ConsistentTree(t) == \A a, b \in t : a # b => ~IsPrefix(a, b)

Init ==
    /\ op \in {"hf", "gcs", "upload", "convert"}
    /\ checkpoint_path \in CheckpointPaths
    /\ output_dir \in (IF op = "upload" THEN LocalDirs ELSE OutputDirs)
    /\ remote \in (IF op = "hf" THEN Listings(RepoFiles, MaxListing)
                   ELSE IF op = "gcs" THEN Listings(BucketNames, MaxListing)
                   ELSE {<<>>})
    /\ tree \in (IF op = "upload"
                 THEN {t \in SUBSET TreeFiles : Cardinality(t) <= MaxFiles /\ ConsistentTree(t)}
                 ELSE {{}})
    /\ faulty \in SUBSET (IF op = "upload" THEN tree ELSE Range(remote))
    /\ blobs = <<>>
    /\ i = 1
    /\ log = <<>>
    /\ outcome = <<>>
    /\ dirs = Ancestors(AbsPath(<<>>))
    /\ files = {}
    /\ uploaded = <<>>
    /\ saved = <<>>
    /\ pushed = <<>>
    /\ todo = <<>>
    /\ ret = "start"
    /\ pc = "start"

\* number of transfers attempted for position n of blobs
Attempts(n) == Cardinality({k \in 1..Len(log) : log[k].idx = n})

\* a failed transfer is attempted again
AfterFailureRetry(o) == "loop"

\* Where control goes when a library call raises: the except clause around
\* the listing and the whole loop of the hub fetch, the caller of the other
\* functions.
AfterFailure(o) == IF o = "hf" THEN "handler" ELSE "raised"

\* One transfer of blobs[i] to the local path dest: the payload is written
\* unless the download raises or the directory of dest is missing.
Download(key, dest, ds) ==
    LET parent_ok == ParentOf(AbsPath(dest)) \in ds
        ok        == key \notin faulty /\ parent_ok
    IN  /\ Attempts(i) < MaxAttempts
        /\ log' = Append(log, [idx |-> i, key |-> key, dest |-> dest,
                               parent_ok |-> parent_ok, ok |-> ok])
        /\ dirs' = ds
        /\ IF ok
           THEN /\ files' = WriteFile(files, dest, key)
                /\ outcome' = [outcome EXCEPT ![i] = "Success"]
                /\ i' = i + 1
                /\ pc' = "loop"
           ELSE /\ files' = files
                /\ outcome' = [outcome EXCEPT ![i] = "Failure"]
                /\ i' = i
                /\ pc' = AfterFailure(op)

----------------------------------------------------------------------------
(* fetch_checkpoint_from_huggingface *)

\* os.makedirs is entered: it goes on at r when nothing is missing
EnterMakeDirs(plan, r) ==
    /\ todo' = plan
    /\ ret' = r
    /\ pc' = IF plan = <<>> THEN r ELSE "mkdir"

\* one mkdir call of the running os.makedirs
Mkdir ==
    /\ pc = "mkdir" /\ todo # <<>>
    /\ dirs' = dirs \cup {Head(todo)}
    /\ todo' = Tail(todo)
    /\ pc' = IF Len(todo) = 1 THEN ret ELSE "mkdir"
    /\ UNCHANGED <<args, blobs, i, log, outcome, files, uploaded, saved, pushed, ret>>

\* a mkdir call raises (permissions, a file in the way, a full disk): the
\* os.makedirs of the loop of the hub fetch is inside the try (line 33), the
\* two before the listing are not (hf_utils.py line 21, gcp_utils.py line 69)
MkdirRaise ==
    /\ pc = "mkdir" /\ todo # <<>>
    /\ pc' = IF ret = "transfer" THEN AfterFailure(op) ELSE "raised"
    /\ UNCHANGED <<args, blobs, i, log, outcome, dirs, files, uploaded, saved, pushed, todo, ret>>

\* lines 16-21: os.makedirs(output_dir) is called
HfMakeOutputDir ==
    /\ op = "hf" /\ pc = "start"
    /\ EnterMakeDirs(MkdirPlan(dirs, output_dir), "list")
    /\ UNCHANGED <<args, blobs, i, log, outcome, dirs, files, uploaded, saved, pushed>>

\* lines 25-28: list_repo_files answers, the startswith filter
HfList ==
    /\ op = "hf" /\ pc = "list"
    /\ blobs' = SelectSeq(remote, LAMBDA f : StartsWith(f, checkpoint_path))
    /\ outcome' = [n \in 1..Len(blobs') |-> "none"]
    /\ pc' = "loop"
    /\ UNCHANGED <<args, i, log, dirs, files, uploaded, saved, pushed, todo, ret>>

\* line 25: list_repo_files raises, inside the try
HfListRaise ==
    /\ op = "hf" /\ pc = "list"
    /\ pc' = AfterFailure(op)
    /\ UNCHANGED <<args, blobs, i, log, outcome, dirs, files, uploaded, saved, pushed, todo, ret>>

\* lines 45-46: the except clause prints the error, the call returns None
HfReturn ==
    /\ op = "hf" /\ pc = "handler"
    /\ pc' = "caught"
    /\ UNCHANGED <<args, blobs, i, log, outcome, dirs, files, uploaded, saved, pushed, todo, ret>>

\* line 32
LocalPath(od, file) == Join(od, file)

\* lines 30-33: the next file of checkpoint_files, os.makedirs of the
\* directory of its local path is called
HfEnsureDir ==
    /\ op = "hf" /\ pc = "loop" /\ i <= Len(blobs)
    /\ EnterMakeDirs(MkdirPlan(dirs, Dirname(LocalPath(output_dir, blobs[i]))), "transfer")
    /\ UNCHANGED <<args, blobs, i, log, outcome, dirs, files, uploaded, saved, pushed>>

\* lines 35-41: hf_hub_download of that file into output_dir
HfDownload ==
    /\ op = "hf" /\ pc = "transfer"
    /\ Download(blobs[i], LocalPath(output_dir, blobs[i]), dirs)
    /\ UNCHANGED <<args, blobs, uploaded, saved, pushed, todo, ret>>

----------------------------------------------------------------------------
(* fetch_checkpoint_from_gcs *)

\* line 63
SubfolderName(cp) == Last(Split(Strip(cp)))

\* line 64
CheckpointOutputDir(od, cp) == Join(od, SubfolderName(cp))

\* line 82
LocalFilePath(od, cp, name) == Join(CheckpointOutputDir(od, cp), Basename(name))

\* line 57: get_storage_client raises (a bad key file, no default credentials)
GcsClientRaise ==
    /\ op = "gcs" /\ pc = "start"
    /\ pc' = AfterFailure(op)
    /\ UNCHANGED <<args, blobs, i, log, outcome, dirs, files, uploaded, saved, pushed, todo, ret>>

\* lines 56-69: the client, list_blobs (an iterator, nothing is requested
\* yet), os.makedirs of the subfolder is called
GcsPrepare ==
    /\ op = "gcs" /\ pc = "start"
    /\ EnterMakeDirs(MkdirPlan(dirs, CheckpointOutputDir(output_dir, checkpoint_path)), "list")
    /\ UNCHANGED <<args, blobs, i, log, outcome, dirs, files, uploaded, saved, pushed>>

\* lines 60, 72: the loop starts the iterator, the bucket answers with the
\* names that have the prefix checkpoint_path
GcsList ==
    /\ op = "gcs" /\ pc = "list"
    /\ blobs' = SelectSeq(remote, LAMBDA f : StartsWith(f, checkpoint_path))
    /\ outcome' = [n \in 1..Len(blobs') |-> "none"]
    /\ pc' = "loop"
    /\ UNCHANGED <<args, i, log, dirs, files, uploaded, saved, pushed, todo, ret>>

\* line 72: the listing request raises
GcsListRaise ==
    /\ op = "gcs" /\ pc = "list"
    /\ pc' = AfterFailure(op)
    /\ UNCHANGED <<args, blobs, i, log, outcome, dirs, files, uploaded, saved, pushed, todo, ret>>

\* lines 77-79: a name ending in "/" is skipped
GcsSkip ==
    /\ op = "gcs" /\ pc = "loop" /\ i <= Len(blobs)
    /\ EndsWithSep(blobs[i])
    /\ outcome' = [outcome EXCEPT ![i] = "Skipped"]
    /\ i' = i + 1
    /\ UNCHANGED <<args, blobs, log, dirs, files, uploaded, saved, pushed, pc, todo, ret>>

\* lines 81-85: download into the subfolder under the base name
GcsDownload ==
    /\ op = "gcs" /\ pc = "loop" /\ i <= Len(blobs)
    /\ ~EndsWithSep(blobs[i])
    /\ LET name            == blobs[i]
           local_file_path == LocalFilePath(output_dir, checkpoint_path, name)
       IN  Download(name, local_file_path, dirs)
    /\ UNCHANGED <<args, blobs, uploaded, saved, pushed, todo, ret>>

----------------------------------------------------------------------------
(* upload_checkpoint_to_gcs *)

\* every order in which the elements of S can be listed
Perms(S) ==
    {q \in [1..Cardinality(S) -> S] : \A a, b \in 1..Cardinality(S) : a # b => q[a] # q[b]}

\* os.walk(top), top-down, as the set of sequences of (root, file) pairs it can
\* yield: the files of the directory d, whose path is the string top, then the
\* walk of each of its sub-directories, whose path is join(top, name).  The
\* order of the entries of one directory is the order scandir returns them
\* in, which the filesystem decides.
RECURSIVE Walk(_, _, _)
RECURSIVE WalkDirs(_, _, _, _)
Walk(t, top, d) ==
    LET here  == {[root |-> top, file |-> <<Last(p)>>, src |-> p] :
                     p \in {q \in t : Len(q) = Len(d) + 1 /\ IsPrefix(d, q)}}
        below == {p \in t : Len(p) > Len(d) + 1 /\ IsPrefix(d, p)}
        names == {p[Len(d) + 1] : p \in below}
    IN  {f \o r : f \in Perms(here), r \in WalkDirs(t, top, d, names)}

WalkDirs(t, top, d, names) ==
    IF names = {} THEN {<<>>}
    ELSE UNION {{a \o b : a \in Walk(t, Join(top, <<n>>), Append(d, n)),
                          b \in WalkDirs(t, top, d, names \ {n})} : n \in names}

\* line 32: get_storage_client raises (a bad key file, no default credentials)
UploadClientRaise ==
    /\ op = "upload" /\ pc = "start"
    /\ pc' = AfterFailure(op)
    /\ UNCHANGED <<args, blobs, i, log, outcome, dirs, files, uploaded, saved, pushed, todo, ret>>

\* lines 32-35: the client, the bucket, the start of os.walk(local_dir)
UploadWalk ==
    /\ op = "upload" /\ pc = "start"
    /\ blobs' \in Walk(tree, output_dir, <<>>)
    /\ outcome' = [n \in 1..Len(blobs') |-> "none"]
    /\ pc' = "loop"
    /\ UNCHANGED <<args, i, log, dirs, files, uploaded, saved, pushed, todo, ret>>

\* lines 36-41: one file of the walk is uploaded
UploadFile ==
    /\ op = "upload" /\ pc = "loop" /\ i <= Len(blobs)
    /\ Attempts(i) < MaxAttempts
    /\ LET local_path    == Join(blobs[i].root, blobs[i].file)
           relative_path == RelPath(local_path, output_dir)
           blob_path     == Join(checkpoint_path, relative_path)
           ok            == blobs[i].src \notin faulty
       IN  /\ log' = Append(log, [idx |-> i, key |-> local_path, dest |-> blob_path,
                                  parent_ok |-> TRUE, ok |-> ok])
           /\ IF ok
              THEN /\ uploaded' = Append(uploaded, [src |-> blobs[i].src,
                                                    local |-> local_path,
                                                    key |-> blob_path])
                   /\ outcome' = [outcome EXCEPT ![i] = "Success"]
                   /\ i' = i + 1
                   /\ pc' = pc
              ELSE /\ uploaded' = uploaded
                   /\ outcome' = [outcome EXCEPT ![i] = "Failure"]
                   /\ i' = i
                   /\ pc' = AfterFailure(op)
    /\ UNCHANGED <<args, blobs, dirs, files, saved, pushed, todo, ret>>

----------------------------------------------------------------------------
(* End of the loops, and interruption *)

\* hub fetch, line 43: the loop is exhausted
HfFinish ==
    /\ op = "hf" /\ pc = "loop" /\ i > Len(blobs)
    /\ pc' = "done"
    /\ UNCHANGED <<args, blobs, i, log, outcome, dirs, files, uploaded, saved, pushed, todo, ret>>

\* bucket fetch, lines 87-97: the loop is exhausted, the directory is printed
GcsFinish ==
    /\ op = "gcs" /\ pc = "loop" /\ i > Len(blobs)
    /\ pc' = "done"
    /\ UNCHANGED <<args, blobs, i, log, outcome, dirs, files, uploaded, saved, pushed, todo, ret>>

\* upload, line 43: the walk is exhausted
UploadFinish ==
    /\ op = "upload" /\ pc = "loop" /\ i > Len(blobs)
    /\ pc' = "done"
    /\ UNCHANGED <<args, blobs, i, log, outcome, dirs, files, uploaded, saved, pushed, todo, ret>>

\* The caller stops the run from outside (SIGINT): KeyboardInterrupt is raised
\* wherever the call is, before its first statement, between two statements,
\* inside a library call, in the except clause or before the last print.  It
\* is no Exception, so the except clause of the hub fetch does not catch it,
\* and the other functions catch nothing: the call is left with what it has
\* done so far.
Interrupt ==
    /\ pc \in {"start", "mkdir", "list", "loop", "transfer", "handler", "save",
              "report"}
    /\ pc' = "interrupted"
    /\ UNCHANGED <<args, blobs, i, log, outcome, dirs, files, uploaded, saved, pushed, todo, ret>>

----------------------------------------------------------------------------
(* convert_checkpoint_to_model_and_push *)

\* lines 33-45: what is saved to output_path, in this order
SaveOrder == <<"model", "prompt_tokenizer", "description_tokenizer",
               "feature_extractor", "config">>

\* lines 10-30: accelerator, configuration, model, load_state, unwrap_model
ConvertLoad ==
    /\ op = "convert" /\ pc = "start"
    /\ pc' = "save"
    /\ UNCHANGED <<args, blobs, i, log, outcome, dirs, files, uploaded, saved, pushed, todo, ret>>

\* lines 33-45: the next save_pretrained(output_path)
ConvertSave ==
    /\ op = "convert" /\ pc = "save" /\ i <= Len(SaveOrder)
    /\ saved' = Append(saved, SaveOrder[i])
    /\ i' = i + 1
    /\ UNCHANGED <<args, blobs, log, outcome, dirs, files, uploaded, pushed, pc, todo, ret>>

\* lines 50-58: login, create_repo, upload_folder(output_path)
ConvertPush ==
    /\ op = "convert" /\ pc = "save" /\ i > Len(SaveOrder)
    /\ pushed' = saved
    /\ pc' = "report"
    /\ UNCHANGED <<args, blobs, i, log, outcome, dirs, files, uploaded, saved, todo, ret>>

\* line 60: the last print, the call returns
ConvertFinish ==
    /\ op = "convert" /\ pc = "report"
    /\ pc' = "done"
    /\ UNCHANGED <<args, blobs, i, log, outcome, dirs, files, uploaded, saved, pushed, todo, ret>>

\* any of the library calls raises: nothing is caught
ConvertRaise ==
    /\ op = "convert" /\ pc \in {"start", "save"}
    /\ pc' = AfterFailure(op)
    /\ UNCHANGED <<args, blobs, i, log, outcome, dirs, files, uploaded, saved, pushed, todo, ret>>

Next ==
    \/ Mkdir
    \/ MkdirRaise
    \/ HfMakeOutputDir
    \/ HfList
    \/ HfListRaise
    \/ HfReturn
    \/ HfEnsureDir
    \/ HfDownload
    \/ HfFinish
    \/ GcsClientRaise
    \/ GcsPrepare
    \/ GcsList
    \/ GcsListRaise
    \/ GcsSkip
    \/ GcsDownload
    \/ GcsFinish
    \/ UploadClientRaise
    \/ UploadWalk
    \/ UploadFile
    \/ UploadFinish
    \/ ConvertLoad
    \/ ConvertSave
    \/ ConvertPush
    \/ ConvertFinish
    \/ ConvertRaise
    \/ Interrupt

Spec == Init /\ [][Next]_vars

TypeOK ==
    /\ pc \in {"start", "mkdir", "list", "loop", "transfer", "handler", "save",
               "report", "done", "caught", "raised", "interrupted"}
    /\ pc = "mkdir" => todo # <<>> /\ ret \in {"list", "transfer"}
    /\ \A d \in dirs : d = <<>> \/ ParentOf(d) \in dirs
    /\ i \in 1..((IF op = "convert" THEN Len(SaveOrder) ELSE Len(blobs)) + 1)
    /\ Len(outcome) = Len(blobs)
    /\ pc = "transfer" => op = "hf" /\ i <= Len(blobs)

----------------------------------------------------------------------------
(* Vocabulary of the properties *)

Fetch == op \in {"hf", "gcs"}

\* a pseudo-directory marker: a key ending in the delimiter
IsMarker(k) == EndsWithSep(k)

\* the non-empty segments of a key or path
Segments(s) == SelectSeq(Split(s), LAMBDA x : x # <<>>)

\* positions of the listing that call for a transfer
WorkKeys == {n \in 1..Len(blobs) : ~IsMarker(blobs[n])}

\* the call has returned or raised on its own account (not interrupted)
Ended == pc \in {"done", "caught", "raised"}

HasParDir(k) == \E n \in 1..Len(Split(k)) : Split(k)[n] = ParDir

\* path lies strictly below root
Below(path, root) ==
    /\ IsPrefix(AbsPath(root), AbsPath(path))
    /\ AbsPath(path) # AbsPath(root)

\* file f is the path cp itself or lies in the directory cp names
UnderPath(f, cp) ==
    \/ f = cp
    \/ StartsWith(f, IF EndsWithSep(cp) THEN cp ELSE cp \o <<Sep>>)

----------------------------------------------------------------------------
(* Properties *)

\* C1 - Fault isolation: when the fetch has ended and exactly one work item
\* of the listing is one whose download raises, every work item has an
\* outcome: Failure for that one, Success for all the others.
FaultIsolation ==
    (Fetch /\ Ended /\ Cardinality({n \in WorkKeys : blobs[n] \in faulty}) = 1)
        => \A n \in WorkKeys :
              outcome[n] = (IF blobs[n] \in faulty THEN "Failure" ELSE "Success")

\* C2 - Completeness: when the fetch has ended, exactly one work item was
\* produced for every non-marker key of the listing and none for a marker.
Completeness ==
    (Fetch /\ Ended)
        => \A n \in 1..Len(blobs) :
              Attempts(n) = (IF IsMarker(blobs[n]) THEN 0 ELSE 1)

\* C3 - Persisted layout: after a fetch in which no transfer failed, there is
\* one local file per non-marker key of the listing, each holding its key.
PersistedLayout ==
    (Fetch /\ pc = "done")
        => /\ Cardinality(files) = Cardinality(WorkKeys)
           /\ \A n \in WorkKeys : \E f \in files : f.key = blobs[n]

\* C4 - Path containment: no work item is produced for a key with a ".."
\* segment, and every work item's local path lies below the output root.
PathContainment ==
    Fetch => \A k \in 1..Len(log) :
                /\ ~HasParDir(log[k].key)
                /\ Below(log[k].dest, output_dir)

\* C5 - Directory before payload: every transfer of a fetch found the parent
\* directory of its destination present when the write started.
DirectoryBeforePayload ==
    Fetch => \A k \in 1..Len(log) : log[k].parent_ok

\* a file was written into a directory the loop created below the output root
DirectoryBeforePayloadWitness ==
    /\ op = "hf"
    /\ \E k \in 1..Len(log) :
          /\ log[k].ok
          /\ Len(AbsPath(log[k].dest)) > Len(AbsPath(output_dir)) + 1
          /\ \E f \in files : f.path = AbsPath(log[k].dest)

\* C6 - Layout of the bucket fetch: every destination is the output root,
\* then the last non-empty segment of the checkpoint prefix, then the final
\* segment of the key; "run42/ckpt-1000", "/out", "run42/ckpt-1000/model.bin"
\* give /out/ckpt-1000/model.bin.
FlattenToSubfolder ==
    /\ op = "gcs" =>
          \A k \in 1..Len(log) :
             /\ Segments(log[k].dest) =
                    Segments(output_dir)
                    \o <<Last(Segments(checkpoint_path)), Last(Split(log[k].key))>>
             /\ (log[k].dest[1] = Sep) <=> (output_dir[1] = Sep)
    /\ LocalFilePath(<<Sep, "out">>, <<"run42", Sep, "ckpt-1000">>,
                     <<"run42", Sep, "ckpt-1000", Sep, "model.bin">>)
          = <<Sep, "out", Sep, "ckpt-1000", Sep, "model.bin">>

\* a blob was downloaded under a prefix given with a trailing separator
FlattenToSubfolderWitness ==
    /\ op = "gcs"
    /\ EndsWithSep(checkpoint_path)
    /\ \E k \in 1..Len(log) : log[k].ok /\ Len(Segments(log[k].key)) > 3

\* C7 - Cancellation: once the run is cancelled, every work item of the
\* listing is reported: Success or Failure if dispatched, Cancelled if not.
Cancellation ==
    (Fetch /\ pc = "interrupted")
        => \A n \in WorkKeys : outcome[n] \in {"Success", "Failure", "Cancelled"}

\* C8 - No automatic retry: no position of the listing or of the walk is
\* transferred more than once.
NoRetry == \A n \in 1..Len(blobs) : Attempts(n) <= 1

\* a transfer failed and the call is over
NoRetryWitness ==
    /\ Ended
    /\ \E k \in 1..Len(log) : ~log[k].ok /\ Attempts(log[k].idx) = 1

\* C9 - Prefix filter of the hub fetch: every file downloaded is the
\* checkpoint path or lies inside the directory it names.
PrefixFilter ==
    op = "hf" => \A k \in 1..Len(log) : UnderPath(log[k].key, checkpoint_path)

\* the names leading to a file, joined by the separator
RECURSIVE RelString(_)
RelString(names) ==
    IF Len(names) = 1 THEN <<names[1]>>
    ELSE <<names[1], Sep>> \o RelString(Tail(names))

\* C10 - Upload mapping: when the upload has returned, every file of the tree
\* was uploaded exactly once and nothing else was, each to checkpoint_path
\* joined with its path relative to local_dir, distinct files to distinct keys.
UploadMapping ==
    (op = "upload" /\ pc = "done")
        => /\ {uploaded[k].src : k \in 1..Len(uploaded)} = tree
           /\ Len(uploaded) = Cardinality(tree)
           /\ \A k \in 1..Len(uploaded) :
                 uploaded[k].key =
                     (IF EndsWithSep(checkpoint_path) THEN checkpoint_path
                      ELSE checkpoint_path \o <<Sep>>) \o RelString(uploaded[k].src)
           /\ \A a, b \in 1..Len(uploaded) :
                 a # b => uploaded[a].key # uploaded[b].key

\* an upload of two files, one of them in a sub-directory, has returned
UploadMappingWitness ==
    /\ op = "upload" /\ pc = "done"
    /\ Len(uploaded) = 2
    /\ \E k \in 1..Len(uploaded) : Len(uploaded[k].src) > 1

====
